---- MODULE Spec2Model ----
(***************************************************************************)
(* A model of testbuilder.py: the generate / copy / clean / zero verbs    *)
(* acting on a working directory, a target test tree and the build        *)
(* manifest (model-0.yml).                                                 *)
(*                                                                         *)
(* File names and manifest paths are sequences of one-character strings,   *)
(* so that globbing (fnmatch), concatenation, str() and sorted() are       *)
(* computed as Python computes them.                                       *)
(*                                                                         *)
(* Each verb is one process; the processes run one after the other.  clean,*)
(* zero and copy are one step each; generate is a step per external        *)
(* process it waits for.  File operations and the yaml load and dump are   *)
(* taken to succeed, and the manifest to hold a 'source' list.             *)
(***************************************************************************)
EXTENDS Integers, Sequences, FiniteSets, TLC

(***************************************************************************)
(* Bounds of the model.                                                    *)
(***************************************************************************)
\* the most trail files one checker run writes
MaxTrails == 3
\* the most command-line invocations in one behaviour
MaxOps == 2
\* the most merges applied to one manifest when the merge is checked alone
MaxMerges == 2

(***************************************************************************)
(* Strings.                                                                *)
(***************************************************************************)
Lower ==
  << "a", "b", "c", "d", "e", "f", "g", "h", "i", "j", "k", "l", "m",
     "n", "o", "p", "q", "r", "s", "t", "u", "v", "w", "x", "y", "z" >>

Digits == << "0", "1", "2", "3", "4", "5", "6", "7", "8", "9" >>

\* the index of c in the tuple t (c occurs in t)
IndexOf(t, c) == CHOOSE k \in 1..Len(t) : t[k] = c

IsIn(t, c) == \E k \in 1..Len(t) : t[k] = c

\* the code point of a character, the key of Python's string comparison
Ord(c) ==
  IF c = "*" THEN 42
  ELSE IF c = "-" THEN 45
  ELSE IF c = "." THEN 46
  ELSE IF c = "/" THEN 47
  ELSE IF IsIn(Digits, c) THEN 47 + IndexOf(Digits, c)
  ELSE 96 + IndexOf(Lower, c)

\* Python's s < t on strings: lexicographic by code point, a proper prefix
\* is smaller
RECURSIVE StrLess(_, _)
StrLess(s, t) ==
  IF t = << >> THEN FALSE
  ELSE IF s = << >> THEN TRUE
  ELSE IF Head(s) = Head(t) THEN StrLess(Tail(s), Tail(t))
  ELSE Ord(Head(s)) < Ord(Head(t))

\* str(n) for n >= 0
RECURSIVE str(_)
str(n) ==
  IF n < 10 THEN << Digits[n + 1] >>
  ELSE str(n \div 10) \o << Digits[(n % 10) + 1] >>

\* sorted(list(s)) for a set s of strings
RECURSIVE sorted(_)
sorted(s) ==
  IF s = {} THEN << >>
  ELSE LET least == CHOOSE x \in s : \A y \in s : x = y \/ StrLess(x, y)
       IN  << least >> \o sorted(s \ {least})

\* set(l) for a list l
set(l) == { l[k] : k \in 1..Len(l) }

\* a list holding the elements of a finite set once each, in some order
\* (the order of os.scandir, which glob.glob returns, is unspecified)
RECURSIVE ListOf(_)
ListOf(s) ==
  IF s = {} THEN << >>
  ELSE LET x == CHOOSE y \in s : TRUE IN << x >> \o ListOf(s \ {x})

(***************************************************************************)
(* The literals of testbuilder.py.                                         *)
(***************************************************************************)
TrPrefix == << "t", "r", "-" >>
TcPrefix == << "t", "c", "-" >>
StarC == << "*", ".", "c" >>
StarH == << "*", ".", "h" >>
DotC == << ".", "c" >>
DashStarC == << "-", "*", ".", "c" >>
StarTrail == << "*", ".", "t", "r", "a", "i", "l" >>
DotTrail == << ".", "t", "r", "a", "i", "l" >>
StarSpn == << "*", ".", "s", "p", "n" >>
DotSpn == << ".", "s", "p", "n" >>
Dash == << "-" >>
Pan == << "p", "a", "n" >>
DotPml == << ".", "p", "m", "l" >>
PreH == << "-", "p", "r", "e", ".", "h" >>
PostH == << "-", "p", "o", "s", "t", ".", "h" >>
RunH == << "-", "r", "u", "n", ".", "h" >>
RfnYml == << "-", "r", "f", "n", ".", "y", "m", "l" >>

\* 'testsuites/validation/'
ValidationDir ==
  << "t", "e", "s", "t", "s", "u", "i", "t", "e", "s", "/",
     "v", "a", "l", "i", "d", "a", "t", "i", "o", "n", "/" >>

\* 'ts-model-0.c'
TsModel0 == << "t", "s", "-", "m", "o", "d", "e", "l", "-", "0", ".", "c" >>

\* "testsuites/validation/ts-model-0.c"
BaselinePath == ValidationDir \o TsModel0

(***************************************************************************)
(* Directories: a directory is a function from the names of its files to   *)
(* their contents.                                                         *)
(***************************************************************************)
\* fnmatch.fnmatch(name, pat) for patterns of literal characters and '*'
RECURSIVE fnmatch(_, _)
fnmatch(name, pat) ==
  IF pat = << >> THEN name = << >>
  ELSE IF Head(pat) = "*"
       THEN \/ fnmatch(name, Tail(pat))
            \/ name # << >> /\ fnmatch(Tail(name), pat)
       ELSE /\ name # << >>
            /\ Head(name) = Head(pat)
            /\ fnmatch(Tail(name), Tail(pat))

\* glob.glob(pat) in directory dir: the names matching pat; a name that
\* starts with a dot matches only a pattern that starts with a dot
glob(dir, pat) ==
  { f \in DOMAIN dir :
      /\ fnmatch(f, pat)
      /\ (f # << >> /\ Head(f) = ".") => (pat # << >> /\ Head(pat) = ".") }

\* os.path.isfile(name) in directory dir
isfile(dir, name) == name \in DOMAIN dir

\* os.remove(file) for every file of files
remove(dir, files) == [ f \in (DOMAIN dir) \ files |-> dir[f] ]

\* shutil.copyfile(file, dst + file) for every file of files
copyfile(src, dst, files) ==
  [ f \in (DOMAIN dst) \cup files |-> IF f \in files THEN src[f] ELSE dst[f] ]

\* open(name, 'w').write(content): create or overwrite
write(dir, name, content) ==
  [ f \in (DOMAIN dir) \cup {name} |-> IF f = name THEN content ELSE dir[f] ]

(***************************************************************************)
(* The inputs the model draws from.                                        *)
(***************************************************************************)
\* model identifiers: "m" is a prefix of "m2"
M1 == << "m" >>
M2 == << "m", "2" >>
Models == { M1, M2 }

\* the directories a configuration can name: the working directory, the
\* copy destination rtems + "testsuites/validation/", and any other one
Dirs == { "wd", "target", "other" }

\* the five required input files of a model, in the order generate checks them
RequiredSuffixes == << DotPml, PreH, PostH, RunH, RfnYml >>
Required(model) == { model \o RequiredSuffixes[k] : k \in 1..Len(RequiredSuffixes) }

\* 'tr-m-old.c', a stale artifact of model "m"
TrOld == TrPrefix \o M1 \o << "-", "o", "l", "d" >> \o DotC

\* the contents of files: what the target tree and the other directory hold
\* at the start, what the working directory holds at the start, and what
\* the checker, the shell and the generator write
OldContent == "old"
WorkingContent == "working"
FreshContent == "fresh"

\* a directory holding the files of names, each with the content c
Files(names, c) == [ f \in names |-> c ]

\* generated files the working directory may hold at the start
InitWorking ==
  { {},
    { TrPrefix \o M1 \o DotC, TrPrefix \o M1 \o << ".", "h" >>,
      TcPrefix \o M1 \o DotC },
    { TrPrefix \o M1 \o Dash \o str(0) \o DotC,
      TrPrefix \o M1 \o Dash \o str(1) \o DotC,
      TrPrefix \o M2 \o DotC,
      M1 \o DotPml \o DotTrail } }

\* files the target tree may hold at the start
InitTarget ==
  { { TsModel0 },
    { TsModel0, TrOld, TrPrefix \o M1 \o << ".", "h" >> },
    { TrPrefix \o M1 \o DotC, TrPrefix \o M2 \o DotC, TcPrefix \o M2 \o DotC } }

\* files another directory holds at the start
InitOther == { TrOld }

\* source lists the manifest may hold at the start: the baseline, an empty
\* list, and an unsorted list with a duplicate
InitSources ==
  { << BaselinePath >>,
    << >>,
    << ValidationDir \o TrOld, BaselinePath, ValidationDir \o TrOld >> }

(***************************************************************************)
(* State.                                                                  *)
(***************************************************************************)
VARIABLES
  fs,            \* the file system: directory |-> (file name |-> content)
  codedir,       \* config['testcode']: the directory copy deletes from
  manifest,      \* the content of model-0.yml: key |-> value
  cmd,           \* sys.argv[1:] of the current or last invocation
  pc,            \* where the running invocation stands ("idle": none runs)
  no_of_trails,  \* generate's count of trail files
  i,             \* generate's loop index
  log,           \* the external processes generate has run, in order
  out,           \* the diagnostics the readiness check has printed
  outcome,       \* how the last invocation ended
  nops,          \* the number of invocations so far
  prev,          \* history: sys.argv[1:] of the invocation before cmd
  merges         \* history of the merges applied alone: the source list
                 \* they started from and the file lists merged, in order

vars == << fs, codedir, manifest, cmd, pc, no_of_trails, i, log, out,
           outcome, nops, prev, merges >>

wd == fs["wd"]
target == fs["target"]

\* the state before the first invocation, but for the files and the manifest
InitControl ==
  /\ cmd = << >>
  /\ pc = "idle"
  /\ no_of_trails = 0
  /\ i = 0
  /\ log = << >>
  /\ out = << >>
  /\ outcome = "none"
  /\ nops = 0
  /\ prev = << >>

Init ==
  /\ codedir \in Dirs
  /\ \E missing \in SUBSET Required(M1) :
     \E w \in InitWorking, t \in InitTarget :
       /\ missing # {} => (w = {} /\ t = { TsModel0 })
       /\ fs = [ wd |-> Files(((Required(M1) \ missing) \cup Required(M2)) \cup w,
                              WorkingContent),
                 target |-> Files(t, OldContent),
                 other |-> Files(InitOther, OldContent) ]
       /\ manifest \in { [ source |-> l, type |-> "test-program" ] :
                           l \in IF missing = {} THEN InitSources
                                 ELSE { << BaselinePath >> } }
       \* the manifest lists the stale artifact only when the target tree
       \* holds it
       /\ (ValidationDir \o TrOld) \in set(manifest.source) => TrOld \in t
  /\ InitControl
  /\ merges = [ start |-> manifest.source, hist |-> << >> ]

(***************************************************************************)
(* clean                                                                   *)
(***************************************************************************)
\* a faulty variant of clean_files: both kinds of generated source are
\* removed, whatever the number of trail files
clean_files_both(dir, model) ==
  glob(dir, Pan) \cup glob(dir, model \o StarTrail) \cup glob(dir, model \o StarSpn)
    \cup glob(dir, TrPrefix \o model \o DotC)
    \cup glob(dir, TrPrefix \o model \o DashStarC)

\* the files clean(model) removes from the working directory dir
clean_files(dir, model) ==
  LET trails == glob(dir, model \o StarTrail)
  IN  glob(dir, Pan) \cup trails \cup glob(dir, model \o StarSpn)
        \cup (IF Cardinality(trails) = 1
              THEN glob(dir, TrPrefix \o model \o DotC)
              ELSE glob(dir, TrPrefix \o model \o DashStarC))

\* a faulty variant of clean: the copies in the target tree are removed too
clean_target_too(model) ==
  /\ pc = "idle"
  /\ nops < MaxOps
  /\ fs' = [ fs EXCEPT !["wd"] = remove(@, clean_files(@, model)),
                       !["target"] = remove(@, clean_files(@, model)) ]
  /\ cmd' = << "clean", model >>
  /\ prev' = cmd
  /\ outcome' = "returned"
  /\ nops' = nops + 1
  /\ UNCHANGED << codedir, manifest, pc, no_of_trails, i, log, out, merges >>

clean(model) ==
  /\ pc = "idle"
  /\ nops < MaxOps
  /\ fs' = [ fs EXCEPT !["wd"] = remove(@, clean_files(@, model)) ]
  /\ cmd' = << "clean", model >>
  /\ prev' = cmd
  /\ outcome' = "returned"
  /\ nops' = nops + 1
  /\ UNCHANGED << codedir, manifest, pc, no_of_trails, i, log, out, merges >>

(***************************************************************************)
(* zero                                                                    *)
(***************************************************************************)
\* a faulty variant of zero: the baseline is appended to the list kept
zero_append ==
  /\ pc = "idle"
  /\ nops < MaxOps
  /\ manifest' = [ manifest EXCEPT !["source"] = Append(@, BaselinePath) ]
  /\ cmd' = << "zero" >>
  /\ prev' = cmd
  /\ outcome' = "returned"
  /\ nops' = nops + 1
  /\ UNCHANGED << fs, codedir, pc, no_of_trails, i, log, out, merges >>

\* a faulty variant of zero: a new document holding the source list alone
\* is written
zero_new_document ==
  /\ pc = "idle"
  /\ nops < MaxOps
  /\ manifest' = [ source |-> << BaselinePath >> ]
  /\ cmd' = << "zero" >>
  /\ prev' = cmd
  /\ outcome' = "returned"
  /\ nops' = nops + 1
  /\ UNCHANGED << fs, codedir, pc, no_of_trails, i, log, out, merges >>

zero ==
  /\ pc = "idle"
  /\ nops < MaxOps
  /\ manifest' = [ manifest EXCEPT !["source"] = << BaselinePath >> ]
  /\ cmd' = << "zero" >>
  /\ prev' = cmd
  /\ outcome' = "returned"
  /\ nops' = nops + 1
  /\ UNCHANGED << fs, codedir, pc, no_of_trails, i, log, out, merges >>

(***************************************************************************)
(* copy                                                                    *)
(***************************************************************************)
\* the names matching the three artifact patterns of model in dir
artifacts(dir, model) ==
  glob(dir, TrPrefix \o model \o StarC)
    \cup glob(dir, TrPrefix \o model \o StarH)
    \cup glob(dir, TcPrefix \o model \o StarC)

\* a faulty variant of sources: the headers are tracked as build sources too
sources_with_headers(dir, model) == artifacts(dir, model)

\* the names matching the two source patterns of model in dir
sources(dir, model) ==
  glob(dir, TrPrefix \o model \o StarC) \cup glob(dir, TcPrefix \o model \o StarC)

\* "Remove old test files": the file system after the deletions in dcode
remove_old(f, dcode, model) ==
  [ f EXCEPT ![dcode] = remove(@, artifacts(@, model)) ]

\* a faulty variant of copy_new: the files are moved, not copied
copy_new_move(f, model) ==
  LET files == artifacts(f["wd"], model)
  IN  [ f EXCEPT !["target"] = copyfile(f["wd"], @, files),
                 !["wd"] = remove(@, files) ]

\* "Copy new test files": the file system after the copies
copy_new(f, model) ==
  [ f EXCEPT !["target"] = copyfile(f["wd"], @, artifacts(f["wd"], model)) ]

\* the loop "for file in files: source_set.add('testsuites/validation/' + file)"
RECURSIVE add_all(_, _)
add_all(source_set, files) ==
  IF files = << >> THEN source_set
  ELSE add_all(source_set \cup { ValidationDir \o Head(files) }, Tail(files))

\* a faulty variant of merge_sources: the paths are appended to the list
RECURSIVE merge_sources_append(_, _)
merge_sources_append(source_list, files) ==
  IF files = << >> THEN source_list
  ELSE merge_sources_append(Append(source_list, ValidationDir \o Head(files)),
                            Tail(files))

\* a faulty variant of merge_sources: a path not yet listed is appended, and
\* the list is not sorted
RECURSIVE merge_sources_unsorted(_, _)
merge_sources_unsorted(source_list, files) ==
  IF files = << >> THEN source_list
  ELSE merge_sources_unsorted(
         IF (ValidationDir \o Head(files)) \in set(source_list) THEN source_list
         ELSE Append(source_list, ValidationDir \o Head(files)),
         Tail(files))

\* a faulty variant of merge_sources: the list is rebuilt from the files
\* found, and the entries it held are dropped
merge_sources_new_only(source_list, files) == sorted(add_all({}, files))

\* the new value of model0['source'] given its old value and the list files
merge_sources(source_list, files) == sorted(add_all(set(source_list), files))

copy(model) ==
  /\ pc = "idle"
  /\ nops < MaxOps
  /\ LET removed == remove_old(fs, codedir, model)
         copied == copy_new(removed, model)
     IN  /\ fs' = copied
         /\ manifest' =
              [ manifest EXCEPT !["source"] =
                  merge_sources(@, ListOf(sources(copied["wd"], model))) ]
  /\ cmd' = << "copy", model >>
  /\ prev' = cmd
  /\ outcome' = "returned"
  /\ nops' = nops + 1
  /\ UNCHANGED << codedir, pc, no_of_trails, i, log, out, merges >>

(***************************************************************************)
(* generate                                                                *)
(***************************************************************************)
\* the checks of the readiness test, in order: the suffix of the file and
\* the diagnostic printed when it is missing
ReadinessChecks ==
  << [ suffix |-> DotPml, message |-> "Promela file does not exist for model" ],
     [ suffix |-> PreH, message |-> "Preconditions file does not exist for model" ],
     [ suffix |-> PostH, message |-> "Postconditions file does not exist for model" ],
     [ suffix |-> RunH, message |-> "Promela file does not exist for model" ],
     [ suffix |-> RfnYml, message |-> "Refinement file does not exist for model" ] >>

\* the diagnostics printed by the checks from the k-th on, given the
\* predicate present on suffixes
RECURSIVE readiness_messages(_, _)
readiness_messages(present, k) ==
  IF k > Len(ReadinessChecks) THEN << >>
  ELSE (IF present[ReadinessChecks[k].suffix] THEN << >>
        ELSE << ReadinessChecks[k].message >>)
       \o readiness_messages(present, k + 1)

\* which of the five files of model os.path.isfile finds in dir
present_in(dir, model) ==
  [ sfx \in set(RequiredSuffixes) |-> isfile(dir, model \o sfx) ]

\* a faulty variant of ready: each check assigns its own result, so the
\* last check alone decides
ready_last_check(dir, model) == isfile(dir, model \o RfnYml)

\* the value of ready after the five checks
ready(dir, model) == \A sfx \in set(RequiredSuffixes) : isfile(dir, model \o sfx)

\* one os.system call: the tool, what it is asked, and where the shell
\* redirects its output
SpinRun(model) ==
  [ tool |-> "spin", mode |-> "run", file |-> model \o DotPml,
    sel |-> << >>, args |-> << >>, to |-> << >> ]

SpinReplay(model, selector, summary) ==
  [ tool |-> "spin", mode |-> "replay", file |-> model \o DotPml,
    sel |-> selector, args |-> << >>, to |-> summary ]

Testgen(arguments) ==
  [ tool |-> "testgen", mode |-> "", file |-> << >>,
    sel |-> << >>, args |-> arguments, to |-> << >> ]

\* the trail files a checker run that finds k counterexamples writes: a
\* bare one for a single trail, 1-based indexed ones for several
CheckerTrails(model, k) ==
  IF k = 1 THEN { model \o DotPml \o DotTrail }
  ELSE { model \o DotPml \o str(j) \o DotTrail : j \in 1..k }

\* the test source the generator writes for its arguments
GeneratorOutput(arguments) ==
  IF Len(arguments) = 1 THEN TrPrefix \o arguments[1] \o DotC
  ELSE TrPrefix \o arguments[1] \o Dash \o arguments[2] \o DotC

\* write every file of names into dir with content c
RECURSIVE write_all(_, _, _)
write_all(dir, names, c) ==
  IF names = {} THEN dir
  ELSE LET n == CHOOSE x \in names : TRUE
       IN  write_all(write(dir, n, c), names \ {n}, c)

\* a faulty variant of indexed_summary: the summary is named by the 1-based
\* trail index
indexed_summary_one_based(model, k) == model \o Dash \o str(k + 1) \o DotSpn

\* the summary file of the single trail, and of the trail at offset k
single_summary(model) == model \o DotSpn
indexed_summary(model, k) == model \o Dash \o str(k) \o DotSpn

\* the trail selector of the replay at offset k: "t" + str(k + 1)
selector(k) == << "t" >> \o str(k + 1)

\* the model the running invocation was given
model_arg == cmd[2]

\* main() dispatching "generate <model>"
generate_call(model) ==
  /\ pc = "idle"
  /\ nops < MaxOps
  /\ cmd' = << "generate", model >>
  /\ prev' = cmd
  /\ pc' = "ready"
  /\ log' = << >>
  /\ out' = << >>
  /\ no_of_trails' = 0
  /\ i' = 0
  /\ outcome' = "running"
  /\ nops' = nops + 1
  /\ UNCHANGED << fs, codedir, manifest, merges >>

\* lines 66-83: the readiness check
generate_ready ==
  /\ pc = "ready"
  /\ out' = readiness_messages(present_in(wd, model_arg), 1)
  /\ IF ready(wd, model_arg)
     THEN pc' = "spin" /\ UNCHANGED outcome
     ELSE pc' = "idle" /\ outcome' = "exit1"
  /\ UNCHANGED << fs, codedir, manifest, cmd, no_of_trails, i, log, nops, prev, merges >>

\* a faulty variant of generate_spin: the trail files of the model are
\* removed before the checker runs
generate_spin_fresh ==
  /\ pc = "spin"
  /\ \E k \in 0..MaxTrails :
       fs' = [ fs EXCEPT !["wd"] =
                 write_all(remove(@, glob(@, model_arg \o StarTrail)),
                           CheckerTrails(model_arg, k) \cup { Pan }, FreshContent) ]
  /\ log' = Append(log, SpinRun(model_arg))
  /\ pc' = "count"
  /\ UNCHANGED << codedir, manifest, cmd, no_of_trails, i, out, outcome, nops, prev, merges >>

\* line 87: the checker's enumeration run, which finds k counterexamples
generate_spin ==
  /\ pc = "spin"
  /\ \E k \in 0..MaxTrails :
       fs' = [ fs EXCEPT !["wd"] =
                 write_all(@, CheckerTrails(model_arg, k) \cup { Pan }, FreshContent) ]
  /\ log' = Append(log, SpinRun(model_arg))
  /\ pc' = "count"
  /\ UNCHANGED << codedir, manifest, cmd, no_of_trails, i, out, outcome, nops, prev, merges >>

\* a faulty variant of generate_count: no trail is handled like one trail
generate_count_single_or_none ==
  /\ pc = "count"
  /\ no_of_trails' = Cardinality(glob(wd, model_arg \o StarTrail))
  /\ pc' = IF no_of_trails' <= 1 THEN "single_spn" ELSE "loop"
  /\ i' = 0
  /\ UNCHANGED << fs, codedir, manifest, cmd, log, out, outcome, nops, prev, merges >>

\* lines 88-89, 93: counting the trail files and choosing the branch
generate_count ==
  /\ pc = "count"
  /\ no_of_trails' = Cardinality(glob(wd, model_arg \o StarTrail))
  /\ pc' = IF no_of_trails' = 1 THEN "single_spn" ELSE "loop"
  /\ i' = 0
  /\ UNCHANGED << fs, codedir, manifest, cmd, log, out, outcome, nops, prev, merges >>

\* line 90: the replay of the single trail into model.spn
generate_single_spn ==
  /\ pc = "single_spn"
  /\ fs' = [ fs EXCEPT !["wd"] = write(@, single_summary(model_arg), FreshContent) ]
  /\ log' = Append(log, SpinReplay(model_arg, << "t" >>, single_summary(model_arg)))
  /\ pc' = "single_gen"
  /\ UNCHANGED << codedir, manifest, cmd, no_of_trails, i, out, outcome, nops, prev, merges >>

\* a faulty variant of generate_single_gen: sys.exit(0) is missing, and
\* control falls into the loop
generate_single_gen_no_exit ==
  /\ pc = "single_gen"
  /\ fs' = [ fs EXCEPT !["wd"] = write(@, GeneratorOutput(<< model_arg >>), FreshContent) ]
  /\ log' = Append(log, Testgen(<< model_arg >>))
  /\ pc' = "loop"
  /\ UNCHANGED << codedir, manifest, cmd, no_of_trails, i, out, outcome, nops, prev, merges >>

\* lines 91-92: the generator on the model alone, then sys.exit(0)
generate_single_gen ==
  /\ pc = "single_gen"
  /\ fs' = [ fs EXCEPT !["wd"] = write(@, GeneratorOutput(<< model_arg >>), FreshContent) ]
  /\ log' = Append(log, Testgen(<< model_arg >>))
  /\ pc' = "idle"
  /\ outcome' = "exit0"
  /\ UNCHANGED << codedir, manifest, cmd, no_of_trails, i, out, nops, prev, merges >>

\* a faulty variant of generate_loop_spn: the replay is started and not
\* awaited, so it has not completed when the generator is invoked
generate_loop_spn_unawaited ==
  /\ pc = "loop"
  /\ i < no_of_trails
  /\ pc' = "loop_gen"
  /\ UNCHANGED << fs, codedir, manifest, cmd, no_of_trails, i, log, out, outcome, nops, prev, merges >>

\* lines 93-95: the replay of trail i + 1 into model-i.spn
generate_loop_spn ==
  /\ pc = "loop"
  /\ i < no_of_trails
  /\ fs' = [ fs EXCEPT !["wd"] = write(@, indexed_summary(model_arg, i), FreshContent) ]
  /\ log' = Append(log, SpinReplay(model_arg, selector(i), indexed_summary(model_arg, i)))
  /\ pc' = "loop_gen"
  /\ UNCHANGED << codedir, manifest, cmd, no_of_trails, i, out, outcome, nops, prev, merges >>

\* line 96: the generator on the model and the offset i
generate_loop_gen ==
  /\ pc = "loop_gen"
  /\ fs' = [ fs EXCEPT !["wd"] =
               write(@, GeneratorOutput(<< model_arg, str(i) >>), FreshContent) ]
  /\ log' = Append(log, Testgen(<< model_arg, str(i) >>))
  /\ i' = i + 1
  /\ pc' = "loop"
  /\ UNCHANGED << codedir, manifest, cmd, no_of_trails, out, outcome, nops, prev, merges >>

\* the loop is exhausted: generate returns and main() ends
generate_return ==
  /\ pc = "loop"
  /\ i >= no_of_trails
  /\ pc' = "idle"
  /\ outcome' = "returned"
  /\ UNCHANGED << fs, codedir, manifest, cmd, no_of_trails, i, log, out, nops, prev, merges >>

generate ==
  \/ generate_ready
  \/ generate_spin
  \/ generate_count
  \/ generate_single_spn
  \/ generate_single_gen
  \/ generate_loop_spn
  \/ generate_loop_gen
  \/ generate_return

(***************************************************************************)
(* The system: command-line invocations, one after the other.              *)
(***************************************************************************)
Next ==
  \/ \E model \in Models : generate_call(model)
  \/ generate
  \/ \E model \in Models : clean(model)
  \/ zero
  \/ \E model \in Models : copy(model)

Spec == Init /\ [][Next]_vars

(***************************************************************************)
(* The manifest merge of copy (lines 119-130) alone, applied to a manifest *)
(* with file lists drawn from a bounded set.                               *)
(***************************************************************************)
\* the file names the merged lists are made of
MergeNames ==
  { TrPrefix \o M1 \o DotC, TcPrefix \o M1 \o DotC,
    TrPrefix \o M1 \o Dash \o str(0) \o DotC }

\* the lists of one or two of these names
FileLists ==
  { << a >> : a \in MergeNames } \cup { << a, b >> : a \in MergeNames, b \in MergeNames }

\* the source lists a merge may start from
MergeStarts ==
  InitSources \cup { << ValidationDir \o (TrPrefix \o M1 \o DotC), BaselinePath >> }

InitMerge ==
  /\ InitControl
  /\ codedir = "target"
  /\ fs = [ wd |-> Files({}, WorkingContent),
            target |-> Files({ TsModel0 }, OldContent),
            other |-> Files({}, OldContent) ]
  /\ manifest \in { [ source |-> l, type |-> "test-program" ] : l \in MergeStarts }
  /\ merges = [ start |-> manifest.source, hist |-> << >> ]

\* load the manifest, merge the paths of files into its source list, save it
merge_step(files) ==
  /\ Len(merges.hist) < MaxMerges
  /\ manifest' = [ manifest EXCEPT !["source"] = merge_sources(@, files) ]
  /\ merges' = [ merges EXCEPT !.hist = Append(@, files) ]
  /\ UNCHANGED << fs, codedir, cmd, pc, no_of_trails, i, log, out, outcome,
                  nops, prev >>

NextMerge == \E files \in FileLists : merge_step(files)

SpecMerge == InitMerge /\ [][NextMerge]_vars

(***************************************************************************)
(* Properties.                                                             *)
(***************************************************************************)
\* the last invocation is "generate <model>"
IsGenerate == Len(cmd) = 2 /\ cmd[1] = "generate"

\* the list l is strictly increasing: sorted, with no duplicate
IsSortedUnique(l) == \A k \in 1..(Len(l) - 1) : StrLess(l[k], l[k + 1])

\* the manifest path of the file f
PathOf(f) == ValidationDir \o f

\* C1: after copy(m) the files of the target directory matching m's three
\* patterns are exactly the files of the working directory matching them,
\* whatever directory codedir names.
C1_TargetEqualsGenerated ==
  \A m \in Models :
    cmd = << "copy", m >> => artifacts(target, m) = artifacts(wd, m)

\* C2: a copy(m) step leaves the source list strictly sorted, holding
\* exactly the prior entries and the paths of the working directory's
\* tr-m*.c and tc-m*.c files; the tr-m*.h files are in the target tree, and
\* none of their paths is added.  The working directory is read when the
\* manifest is updated; it is the one copy was called in unless codedir
\* names the working directory itself.
C2_ManifestAfterCopy ==
  [][ \A m \in Models :
        (cmd' = << "copy", m >> /\ nops' = nops + 1) =>
          LET old == set(manifest.source)
              new == manifest'.source
              added == { PathOf(f) :
                           f \in glob(fs'["wd"], TrPrefix \o m \o StarC)
                                   \cup glob(fs'["wd"], TcPrefix \o m \o StarC) }
              headers == glob(fs'["wd"], TrPrefix \o m \o StarH)
          IN  /\ codedir # "wd" => fs'["wd"] = fs["wd"]
              /\ IsSortedUnique(new)
              /\ set(new) = old \cup added
              /\ \A h \in headers :
                   /\ h \in DOMAIN fs'["target"]
                   /\ PathOf(h) \in set(new) => PathOf(h) \in old ]_vars

C2_Witness ==
  /\ cmd = << "copy", M1 >>
  /\ (TrPrefix \o M1 \o << ".", "h" >>) \in DOMAIN target
  /\ target[TrPrefix \o M1 \o << ".", "h" >>] = WorkingContent
  /\ PathOf(TrPrefix \o M1 \o DotC) \in set(manifest.source)
  /\ PathOf(TrOld) \in set(manifest.source)
  /\ PathOf(TrPrefix \o M1 \o << ".", "h" >>) \notin set(manifest.source)
  /\ Len(manifest.source) = 4

\* the j-th external process of a generate(m) that counted several trails
ExpectedIndexed(m, j) ==
  IF j = 1
  THEN [ tool |-> "spin", mode |-> "run", file |-> m \o DotPml,
         sel |-> << >>, args |-> << >>, to |-> << >> ]
  ELSE IF j % 2 = 0
  THEN [ tool |-> "spin", mode |-> "replay", file |-> m \o DotPml,
         sel |-> << "t" >> \o str(j \div 2), args |-> << >>,
         to |-> m \o Dash \o str((j \div 2) - 1) \o DotSpn ]
  ELSE [ tool |-> "testgen", mode |-> "", file |-> << >>, sel |-> << >>,
         args |-> << m, str(((j - 1) \div 2) - 1) >>, to |-> << >> ]

\* C3: with N > 1 trail files counted, generate(m) replays trail k with the
\* selector t<k> into m-<k-1>.spn and then runs the generator on (m, k-1),
\* for k = 1..N in this order, and nothing else after the checker run.
C3_IndexedTrails ==
  (IsGenerate /\ no_of_trails > 1) =>
    /\ Len(log) <= 1 + 2 * no_of_trails
    /\ \A j \in 1..Len(log) : log[j] = ExpectedIndexed(cmd[2], j)
    /\ \A j \in 1..Len(log) :
         log[j].mode = "replay" =>
           (log[j].to \in DOMAIN wd /\ wd[log[j].to] = FreshContent)
    /\ pc = "idle" => (outcome = "returned" /\ Len(log) = 1 + 2 * no_of_trails)

C3_Witness ==
  /\ IsGenerate
  /\ pc = "idle"
  /\ outcome = "returned"
  /\ no_of_trails = 3
  /\ Len(log) = 7

\* the external processes of a generate(m) that counted one trail
ExpectedSingle(m) ==
  << [ tool |-> "spin", mode |-> "run", file |-> m \o DotPml,
       sel |-> << >>, args |-> << >>, to |-> << >> ],
     [ tool |-> "spin", mode |-> "replay", file |-> m \o DotPml,
       sel |-> << "t" >>, args |-> << >>, to |-> m \o DotSpn ],
     [ tool |-> "testgen", mode |-> "", file |-> << >>, sel |-> << >>,
       args |-> << m >>, to |-> << >> ] >>

\* C4: with one trail file counted, generate(m) writes m.spn, runs the
\* generator once on m alone and exits with status 0; no other process runs.
C4_SingleTrail ==
  (IsGenerate /\ no_of_trails = 1) =>
    /\ \E k \in 1..3 : log = SubSeq(ExpectedSingle(cmd[2]), 1, k)
    /\ pc = "idle" =>
         /\ outcome = "exit0"
         /\ log = ExpectedSingle(cmd[2])
         /\ (cmd[2] \o DotSpn) \in DOMAIN wd
         /\ wd[cmd[2] \o DotSpn] = FreshContent

C4_Witness ==
  /\ IsGenerate
  /\ pc = "idle"
  /\ outcome = "exit0"
  /\ no_of_trails = 1
  /\ Len(log) = 3

\* C5: with no trail file counted, generate(m) runs nothing after the
\* checker, and returns without an error status.
C5_NoTrails ==
  (IsGenerate /\ no_of_trails = 0 /\ pc \in { "loop", "idle" } /\ log # << >>) =>
    /\ log = << [ tool |-> "spin", mode |-> "run", file |-> cmd[2] \o DotPml,
                  sel |-> << >>, args |-> << >>, to |-> << >> ] >>
    /\ pc = "idle" => outcome = "returned"

C5_Witness ==
  /\ IsGenerate
  /\ pc = "idle"
  /\ outcome = "returned"
  /\ no_of_trails = 0
  /\ Len(log) = 1

\* C6: when the readiness check fails, the printed causes identify the set
\* of missing files: no other set of missing files prints the same.
C6_CausesIdentifyMissing ==
  (IsGenerate /\ outcome = "exit1") =>
    \A S \in SUBSET set(RequiredSuffixes) :
      readiness_messages([ sfx \in set(RequiredSuffixes) |-> sfx \notin S ], 1) = out
        => S = { sfx \in set(RequiredSuffixes) : (cmd[2] \o sfx) \notin DOMAIN wd }

\* C7: the readiness check of a model with a required file missing ends
\* the invocation with status 1, having run no process and changed no file.
C7_MissingInputAborts ==
  [][ (pc = "ready" /\ \E f \in Required(cmd[2]) : f \notin DOMAIN fs["wd"]) =>
        /\ pc' = "idle"
        /\ outcome' = "exit1"
        /\ log' = << >>
        /\ fs' = fs
        /\ manifest' = manifest ]_vars

C7_Witness ==
  /\ IsGenerate
  /\ outcome = "exit1"
  /\ Len(out) = 2
  /\ log = << >>

\* C8: a copy(m) that follows a copy(m) changes neither the target tree
\* nor the manifest.
C8_CopyIdempotent ==
  [][ \A m \in Models :
        (cmd = << "copy", m >> /\ cmd' = << "copy", m >> /\ nops' = nops + 1) =>
          /\ fs'["target"] = fs["target"]
          /\ manifest' = manifest ]_vars

C8_Witness ==
  /\ cmd = << "copy", M1 >>
  /\ prev = << "copy", M1 >>
  /\ (TrPrefix \o M1 \o DotC) \in DOMAIN target
  /\ target[TrPrefix \o M1 \o DotC] = WorkingContent
  /\ PathOf(TrPrefix \o M1 \o DotC) \in set(manifest.source)

\* C9: merging the same set of files twice gives the source list that
\* merging it once gives, and that list is sorted without duplicates.
C9_MergeIdempotent ==
  (Len(merges.hist) = 2 /\ set(merges.hist[1]) = set(merges.hist[2])) =>
    /\ manifest.source = merge_sources(merges.start, merges.hist[1])
    /\ IsSortedUnique(manifest.source)

C9_Witness ==
  /\ Len(merges.hist) = 2
  /\ merges.hist[1] = << TrPrefix \o M1 \o DotC, TcPrefix \o M1 \o DotC >>
  /\ merges.hist[2] = merges.hist[1]
  /\ Len(merges.start) = 3
  /\ Len(manifest.source) = 4

\* C10: merging [a, b] and then [c] gives the source list that merging
\* [c, b] and then [a] gives.
C10_MergeOrderIndependent ==
  \A a \in MergeNames, b \in MergeNames, c \in MergeNames :
    merges.hist = << << a, b >>, << c >> >> =>
      manifest.source =
        merge_sources(merge_sources(merges.start, << c, b >>), << a >>)

C10_Witness ==
  /\ merges.hist = << << TrPrefix \o M1 \o DotC, TcPrefix \o M1 \o DotC >>,
                      << TrPrefix \o M1 \o Dash \o str(0) \o DotC >> >>
  /\ Len(merges.start) = 3
  /\ Len(manifest.source) = 5

\* C11: the source list that zero or copy has written is sorted and holds no
\* path twice, whatever list the manifest held when it was loaded.
C11_WrittenListSorted ==
  (Len(cmd) >= 1 /\ cmd[1] \in { "zero", "copy" }) => IsSortedUnique(manifest.source)

C11_Witness ==
  /\ cmd = << "copy", M1 >>
  /\ prev = << >>
  /\ merges.start = << PathOf(TrOld), BaselinePath, PathOf(TrOld) >>
  /\ Len(manifest.source) = 4

\* C12: after zero the source list is the baseline path alone.
C12_ZeroResets ==
  cmd = << "zero" >> => manifest.source = << BaselinePath >>

C12_Witness ==
  /\ cmd = << "zero" >>
  /\ prev = << "copy", M1 >>
  /\ Len(merges.start) = 3
  /\ PathOf(TrOld) \notin set(manifest.source)

\* C13: no step but a zero removes an entry from the source list; copy keeps
\* the entry of a file it deletes from the target tree as stale.
C13_EntriesNeverShrink ==
  [][ cmd' # << "zero" >> =>
        set(manifest.source) \subseteq set(manifest'.source) ]_vars

C13_Witness ==
  /\ cmd = << "copy", M1 >>
  /\ codedir = "target"
  /\ PathOf(TrOld) \in set(manifest.source)
  /\ TrOld \notin DOMAIN target

\* C14: a zero or copy step leaves the manifest with the keys it had, and
\* every key but 'source' with the value it had.
C14_OnlySourceChanges ==
  [][ (Len(cmd') >= 1 /\ cmd'[1] \in { "zero", "copy" } /\ nops' = nops + 1) =>
        /\ DOMAIN manifest' = DOMAIN manifest
        /\ \A k \in (DOMAIN manifest) \ { "source" } : manifest'[k] = manifest[k] ]_vars

C14_Witness ==
  /\ cmd = << "zero" >>
  /\ prev = << "copy", M1 >>
  /\ DOMAIN manifest = { "source", "type" }
  /\ manifest.type = "test-program"
  /\ manifest.source # merges.start

\* C15: a clean step changes neither the manifest nor a file outside the
\* working directory, and in the working directory it only removes files.
C15_CleanInWorkingDirOnly ==
  [][ (Len(cmd') = 2 /\ cmd'[1] = "clean" /\ nops' = nops + 1) =>
        /\ manifest' = manifest
        /\ fs'["target"] = fs["target"]
        /\ fs'["other"] = fs["other"]
        /\ \A f \in DOMAIN fs'["wd"] :
             f \in DOMAIN fs["wd"] /\ fs'["wd"][f] = fs["wd"][f] ]_vars

C15_Witness ==
  /\ cmd = << "clean", M1 >>
  /\ prev = << "copy", M1 >>
  /\ (M1 \o DotPml \o DotTrail) \notin DOMAIN wd
  /\ PathOf(TrPrefix \o M1 \o Dash \o str(0) \o DotC) \in set(manifest.source)
  /\ (TrPrefix \o M1 \o Dash \o str(0) \o DotC) \in DOMAIN target

\* the two generated sources of a model with two trails
TwoIndexed(model) ==
  { TrPrefix \o model \o Dash \o str(k) \o DotC : k \in 0..1 }

\* C16: when generate(m) has counted two trails and left exactly tr-m-0.c and
\* tr-m-1.c in the working directory, the copy(m) that follows leaves exactly
\* these two artifacts of m in the target tree, and the source list is the
\* sorted, duplicate-free union of its former entries and the two paths.
C16_EndToEnd ==
  [][ ( /\ cmd = << "generate", M1 >>
        /\ pc = "idle"
        /\ outcome = "returned"
        /\ no_of_trails = 2
        /\ artifacts(wd, M1) = TwoIndexed(M1)
        /\ cmd' = << "copy", M1 >> ) =>
        /\ artifacts(fs'["target"], M1) = TwoIndexed(M1)
        /\ IsSortedUnique(manifest'.source)
        /\ set(manifest'.source) =
             set(manifest.source) \cup { PathOf(f) : f \in TwoIndexed(M1) } ]_vars

\* C17: a clean(m) step removes from the working directory pan, the files
\* m*.trail and m*.spn, and tr-m.c when exactly one m*.trail file was there,
\* the files tr-m-*.c otherwise; it removes nothing else, so with one trail
\* file the indexed sources stay.
C17_CleanSelection ==
  [][ (Len(cmd') = 2 /\ cmd'[1] = "clean" /\ nops' = nops + 1) =>
        LET m == cmd'[2]
            one == Cardinality({ f \in DOMAIN wd : fnmatch(f, m \o StarTrail) }) = 1
            gone == (DOMAIN wd) \ (DOMAIN fs'["wd"])
        IN  gone = { f \in DOMAIN wd :
                       \/ f = Pan
                       \/ fnmatch(f, m \o StarTrail)
                       \/ fnmatch(f, m \o StarSpn)
                       \/ one /\ f = TrPrefix \o m \o DotC
                       \/ ~one /\ fnmatch(f, TrPrefix \o m \o DashStarC) } ]_vars

C17_Witness ==
  /\ cmd = << "clean", M1 >>
  /\ prev = << >>
  /\ TwoIndexed(M1) \subseteq DOMAIN wd
  /\ { f \in DOMAIN wd : fnmatch(f, M1 \o StarTrail) } = {}

\* the selector a names an earlier trail than the selector b
SelBefore(a, b) == Len(a) < Len(b) \/ (Len(a) = Len(b) /\ StrLess(a, b))

\* C18: in generate(m) the completed external processes are, at every point,
\* one per step taken: nothing before the checker run, the checker run alone
\* when the trails are counted, then a replay followed by its generator, trail
\* after trail in increasing order; a generator is invoked only once the
\* replay before it has completed.
C18_SequentialProcesses ==
  IsGenerate =>
    /\ pc \in { "ready", "spin" } => log = << >>
    /\ pc \in { "count", "single_spn" } => (Len(log) = 1 /\ log[1].mode = "run")
    /\ pc = "single_gen" => (Len(log) = 2 /\ log[2].mode = "replay")
    /\ pc = "loop" => Len(log) = 1 + 2 * i
    /\ pc = "loop_gen" => (Len(log) = 2 + 2 * i /\ log[Len(log)].mode = "replay")
    /\ \A j \in 1..Len(log) :
         /\ log[j].mode = "run" <=> j = 1
         /\ log[j].tool = "testgen" => (j > 2 /\ log[j - 1].mode = "replay")
         /\ (log[j].mode = "replay" /\ j < Len(log)) => log[j + 1].tool = "testgen"
         /\ \A k \in (j + 1)..Len(log) :
              (log[j].mode = "replay" /\ log[k].mode = "replay") =>
                SelBefore(log[j].sel, log[k].sel)

C18_Witness ==
  /\ IsGenerate
  /\ pc = "loop_gen"
  /\ i = 1
  /\ Len(log) = 4
  /\ log[4].sel = selector(1)

\* the name f is an artifact name of the model m
IsArtifactName(f, m) ==
  \/ fnmatch(f, TrPrefix \o m \o StarC)
  \/ fnmatch(f, TrPrefix \o m \o StarH)
  \/ fnmatch(f, TcPrefix \o m \o StarC)

\* C19: a copy(m) step leaves the working directory as it was, and every
\* file it deletes, creates or overwrites anywhere has a name matching
\* tr-m*.c, tr-m*.h or tc-m*.c; so the artifacts of another model whose name
\* m does not begin are untouched.
C19_CopyFrame ==
  [][ (Len(cmd') = 2 /\ cmd'[1] = "copy" /\ nops' = nops + 1) =>
        /\ fs'["wd"] = fs["wd"]
        /\ \A d \in Dirs : \A f \in (DOMAIN fs[d]) \cup (DOMAIN fs'[d]) :
             ( \/ f \notin DOMAIN fs[d]
               \/ f \notin DOMAIN fs'[d]
               \/ fs'[d][f] # fs[d][f] ) => IsArtifactName(f, cmd'[2]) ]_vars

\* the number of processes in the record l that satisfy the mode and tool
Rounds(l, mode, tool) ==
  Cardinality({ j \in 1..Len(l) : l[j].mode = mode /\ l[j].tool = tool })

\* C20: no step of generate(m) removes a file matching m*.trail, and when
\* generate ends after the checker has run, the replays and the generator
\* runs are each as many as the files matching m*.trail then present, stale
\* ones included; the single-trail exit is taken exactly when there is one.
C20_RoundsFollowTrailFiles ==
  [][ (IsGenerate /\ pc # "idle") =>
        LET before == glob(wd, cmd[2] \o StarTrail)
            after == glob(fs'["wd"], cmd[2] \o StarTrail)
        IN  /\ before \subseteq after
            /\ pc # "spin" => after = before
            /\ (pc' = "idle" /\ log' # << >>) =>
                 /\ Rounds(log', "replay", "spin") = Cardinality(after)
                 /\ Rounds(log', "", "testgen") = Cardinality(after)
                 /\ outcome' = "exit0" <=> Cardinality(after) = 1 ]_vars

C20_Witness ==
  /\ IsGenerate
  /\ pc = "idle"
  /\ prev = << >>
  /\ no_of_trails = 3
  /\ Len(log) = 7
  /\ (M1 \o DotPml \o DotTrail) \in DOMAIN wd
  /\ wd[M1 \o DotPml \o DotTrail] = WorkingContent

====
